---------------------------- MODULE Spec2Model ----------------------------
(***************************************************************************)
(* Model of the context-assembly pipeline of the command-line assistant:   *)
(* history selection, the incremental summary ledger, the full summarizer, *)
(* file ingestion and the assembly of the message list, together with the  *)
(* turn that persists one conversation record (run_chat_engine).           *)
(*                                                                         *)
(* A text is a sequence of words.  The tokenizer counts one token per      *)
(* word, "```" is the fenced-code marker, and string concatenation is      *)
(* sequence concatenation.                                                 *)
(***************************************************************************)
EXTENDS Integers, Sequences, FiniteSets, TLC

VARIABLES
  disk,     \* the conversation folders: each one's record files, in
            \* modification-time order
  ledger,   \* content of summaries/<mode>/history_summary.json ([] when absent)
  clock,    \* the local wall clock, in minutes
  last,     \* what the last run_chat_engine call did (observation of the run)
  sel,      \* one application of the history selection to a sequence
  ing,      \* one application of process_uploaded_files
  asm,      \* one application of build_messages_from_context
  ld,       \* one application of order_and_strip_metadata to a folder
  proc,     \* the interactive loop of main()
  rt,       \* one remote call point inside its retry loop
  race      \* two processes that run the incremental summarizer at once

vars == <<disk, ledger, clock, last, sel, ing, asm, ld, proc, rt, race>>

----------------------------------------------------------------------------
(* Conversation folders *)

\* context_manager.CONVERSATIONS_DIR and the default of load_config: the
\* folder "conversations" next to the sources
DefaultRoot == "src/conversations"

\* a root set through the environment variable CONV_DIR
OtherRoot == "/data/conversations"

\* config.get("mode") of a profile that names no mode
NoMode == "<None>"

Folders == {DefaultRoot, OtherRoot} \X {"code", "general"}

EmptyDisk == [folder \in Folders |-> <<>>]

\* the folder of the category "code" under the default root
CategoryFolder == <<DefaultRoot, "code">>

\* its record files
store == disk[CategoryFolder]

\* the disk with these record files in the category folder and no others
OnlyCategory(files) == [EmptyDisk EXCEPT ![CategoryFolder] = files]

\* the record files of a folder, none when there is no such folder
FilesAt(d, folder) == IF folder \in DOMAIN d THEN d[folder] ELSE <<>>

----------------------------------------------------------------------------
(* Bounds of the model *)

MaxLen == 3        \* longest sequence given to the history selection
MaxKeep == 3       \* largest keep_first_n / keep_last_n / max_turns tried

Min(a, b) == IF a <= b THEN a ELSE b
Max(a, b) == IF a >= b THEN a ELSE b

----------------------------------------------------------------------------
(* Texts and messages *)

\* the fenced-code marker (three backquotes)
FENCE == "<fence>"

\* a text of k words, used where only the identity of a message matters
Txt(k) == [i \in 1..k |-> "w"]

UserMsg(text) == [role |-> "user", content |-> text]

----------------------------------------------------------------------------
(* Python list slicing *)

\* S[:n]
SliceTo(S, n) ==
  LET L == Len(S)
      e == IF n >= 0 THEN Min(n, L) ELSE Max(L + n, 0)
  IN  SubSeq(S, 1, e)

\* S[-n:]   (the start index is -n: for n = 0 it is 0, the whole list)
SliceLast(S, n) ==
  LET L == Len(S)
      b == IF n > 0 THEN Max(L - n, 0) ELSE Min(0 - n, L)
  IN  SubSeq(S, b + 1, L)

----------------------------------------------------------------------------
(* History Selector: context_manager.py lines 47-50 and 150-153 *)

SelectStrictTurns(S, keep_first_n, keep_last_n, max_turns, full_summary) ==
  IF full_summary \/ Len(S) < max_turns
    THEN S
    ELSE SliceTo(S, keep_first_n) \o SliceLast(S, keep_last_n)

SelectShortTail(S, keep_first_n, keep_last_n, max_turns, full_summary) ==
  IF full_summary \/ Len(S) <= max_turns THEN S
  ELSE SliceTo(S, keep_first_n) \o SliceLast(S, Max(keep_last_n - 1, 1))

Select(S, keep_first_n, keep_last_n, max_turns, full_summary) ==
  IF full_summary \/ Len(S) <= max_turns
    THEN S
    ELSE SliceTo(S, keep_first_n) \o SliceLast(S, keep_last_n)

\* line 155: every selected ledger entry becomes a user message
EntriesToMessages(entries) ==
  [i \in 1..Len(entries) |-> UserMsg(entries[i].summary)]

----------------------------------------------------------------------------
(* Words, prompts, replies *)

HasFence(text) == \E i \in 1..Len(text) : text[i] = FENCE

\* str.lower() on an alphanumeric word; "" for a word with no [a-z0-9] in it
LowerAlnum(w) ==
  CASE w = "Fix" -> "fix"
    [] w = "!" -> ""
    [] w = FENCE -> ""
    [] OTHER -> w

RECURSIVE SlugWords(_)
SlugWords(text) ==
  IF text = <<>> THEN <<>>
  ELSE LET w == LowerAlnum(Head(text))
       IN  IF w = "" THEN SlugWords(Tail(text))
                     ELSE <<w>> \o SlugWords(Tail(text))

\* utils.slugify: lower-case, every run of other characters becomes one
\* hyphen, hyphens stripped at both ends; the slug is the sequence of its
\* hyphen-separated words (the prompts of the model are shorter than
\* max_length, so the truncation of lines 80-81 does not apply)
slugify(text) == SlugWords(text)

\* the prompts a user types
Prompts == { <<"fix">>, <<FENCE, "Fix", "!", FENCE>>, <<"run">> }

\* the texts the completion call returns
Responses == { <<"ok">> }

\* the text a remote summarization call returns for a prompt: a digest of
\* that prompt, or an empty text
Digest(prompt) == <<"summary-of">> \o prompt

----------------------------------------------------------------------------
(* Profiles: what load_config hands to run_chat_engine *)

Gpt35Turbo == <<"gpt-3.5", "-turbo">>
Gpt4 == <<"gpt-4">>

\* model.startswith("gpt-3.5")
EqualsGpt35(model) == model = <<"gpt-3.5">>

StartsWithGpt35(model) == Len(model) >= 1 /\ model[1] = "gpt-3.5"

BaseProfile ==
  [model |-> Gpt4, include_history |-> TRUE, keep_first_n |-> 1,
   keep_last_n |-> 1, max_turns |-> 2, max_tokens_summary_input |-> 2,
   summarize_txt_files |-> FALSE, summarize_code_fragments |-> TRUE,
   incremental_history |-> TRUE, full_summary |-> FALSE, system_prompt |-> <<>>,
   mode |-> "code", CONV_DIR |-> DefaultRoot]

Profiles ==
  { BaseProfile,
    [BaseProfile EXCEPT !.summarize_code_fragments = FALSE, !.keep_last_n = 0,
                        !.max_turns = 1, !.system_prompt = <<"be", "brief">>],
    [BaseProfile EXCEPT !.incremental_history = FALSE],
    [BaseProfile EXCEPT !.incremental_history = FALSE, !.model = Gpt35Turbo,
                        !.summarize_txt_files = TRUE],
    [BaseProfile EXCEPT !.incremental_history = FALSE, !.full_summary = TRUE,
                        !.max_tokens_summary_input = 6],
    [BaseProfile EXCEPT !.include_history = FALSE] }

----------------------------------------------------------------------------
(* Files on disk and uploaded file references *)

Missing == <<"<no such file>">>

\* the text of the file at a path, Missing when there is none
FileText(path) ==
  CASE path = <<"notes", ".txt">> -> <<"hello">>
    [] path = <<"README", ".TXT">> -> <<"read", "me">>
    [] path = <<"tool", ".py">> -> <<"def">>
    [] path = <<"data", ".bin">> -> <<"raw">>
    [] OTHER -> Missing

Paths == { <<"notes", ".txt">>, <<"README", ".TXT">>, <<"tool", ".py">>,
           <<"data", ".bin">>, <<"gone", ".txt">> }

\* os.path.splitext(path)[1].lower()
Ext(path) == IF path[2] = ".TXT" THEN ".txt" ELSE path[2]

CodeExts == {".py", ".js", ".ts", ".ipynb"}

\* entry.get("summarize", True)
SummarizeFlag(entry) ==
  IF "summarize" \in DOMAIN entry THEN entry.summarize ELSE TRUE

----------------------------------------------------------------------------
(* Remote calls *)

MaxFiles == 2      \* longest list of uploaded file references

\* a turn makes at most one history call, one call per file and the completion
MaxCalls == MaxFiles + 2

FailKinds == {"retries_exhausted", "error", "interrupt"}

\* What the remote service does during one turn: its failAt-th call fails for
\* good (0: none does), the way failKind says; the summaries it returns are
\* empty texts or digests of what was sent.
Envs == [failAt : 0..MaxCalls, failKind : FailKinds, emptyReply : BOOLEAN]

NoFail == [failAt |-> 0, failKind |-> "error", emptyReply |-> FALSE]

RECURSIVE Contents(_)
Contents(messages) ==
  IF messages = <<>> THEN <<>>
  ELSE Head(messages).content \o Contents(Tail(messages))

\* client.chat.completions.create inside its retry loop, as the n-th call of
\* the turn: the call either returns resp.choices[0].message.content or raises
RemoteCall(site, messages, n, env) ==
  [site |-> site, messages |-> messages,
   ok |-> env.failAt # n,
   reply |-> IF env.failAt = n \/ env.emptyReply
               THEN <<>> ELSE Digest(Contents(messages))]

----------------------------------------------------------------------------
(* History Loader: utils.order_and_strip_metadata *)

RECURSIVE LoadHistory(_)
LoadHistory(files) ==
  IF files = <<>> THEN <<>>
  ELSE SelectSeq(Head(files).messages,
                 LAMBDA m : m.role \in {"user", "assistant"})
         \o LoadHistory(Tail(files))

\* The function on any folder.  A file of the folder is [name, mtime, data];
\* data.valid says whether json.load accepts the file, data.messages is the
\* "messages" entry of the document when it has one.

\* line 17: f.endswith('.json')
IsJson(file) == file.name[2] = ".json"

\* lines 16-19: sorted(..., key=getmtime) is stable: files of equal
\* modification time stay in the order os.listdir gave them
RECURSIVE InsertByMtime(_, _)
InsertByMtime(file, sorted) ==
  IF sorted = <<>> THEN <<file>>
  ELSE IF sorted[Len(sorted)].mtime <= file.mtime THEN Append(sorted, file)
  ELSE Append(InsertByMtime(file, SubSeq(sorted, 1, Len(sorted) - 1)),
              sorted[Len(sorted)])

SortKeepListing(files) == files

RECURSIVE SortByMtime(_)
SortByMtime(files) ==
  IF files = <<>> THEN <<>>
  ELSE InsertByMtime(files[Len(files)],
                     SortByMtime(SubSeq(files, 1, Len(files) - 1)))

\* lines 25-30: the messages of one document; msg["role"] and msg["content"]
\* raise KeyError on a message without that key
RECURSIVE StripMessages(_)
StripMessages(msgs) ==
  IF msgs = <<>> THEN [status |-> "ok", messages |-> <<>>]
  ELSE LET msg == Head(msgs)
           rest == StripMessages(Tail(msgs))
       IN  IF "role" \notin DOMAIN msg
             THEN [status |-> "error", messages |-> <<>>]
           ELSE IF msg.role \in {"user", "assistant"}
             THEN IF "content" \notin DOMAIN msg \/ rest.status = "error"
                    THEN [status |-> "error", messages |-> <<>>]
                    ELSE [status |-> "ok",
                          messages |-> <<[role |-> msg.role,
                                          content |-> msg.content]>>
                                         \o rest.messages]
           ELSE rest

\* lines 21-30: the loop over the sorted files; json.load raises on a file
\* that is not JSON, and nothing catches it
RECURSIVE LoadFiles(_)
LoadFiles(files) ==
  IF files = <<>> THEN [status |-> "ok", messages |-> <<>>]
  ELSE LET data == Head(files).data
       IN  IF ~data.valid THEN [status |-> "error", messages |-> <<>>]
           ELSE LET r == StripMessages(IF "messages" \in DOMAIN data
                                         THEN data.messages ELSE <<>>)
                    rest == LoadFiles(Tail(files))
                IN  IF r.status = "error" \/ rest.status = "error"
                      THEN [status |-> "error", messages |-> <<>>]
                      ELSE [status |-> "ok",
                            messages |-> r.messages \o rest.messages]

\* [status, messages, created]: created says the folder was made by the call
order_and_strip_metadata(exists, listing) ==
  IF ~exists THEN [status |-> "ok", messages |-> <<>>, created |-> TRUE]
  ELSE LET r == LoadFiles(SortByMtime(SelectSeq(listing, IsJson)))
       IN  [status |-> r.status, messages |-> r.messages, created |-> FALSE]

\* count_tokens: the tokens of every message content, summed
RECURSIVE count_tokens(_)
count_tokens(messages) ==
  IF messages = <<>> THEN 0
  ELSE Len(Head(messages).content) + count_tokens(Tail(messages))

----------------------------------------------------------------------------
(* Incremental Summarizer: prepare_history_messages_incremental *)

\* lines 145-147: the new entry is appended and the whole ledger written
AppendSummaryStepOff(summaries, new_summary) ==
  Append(summaries, [step |-> Len(summaries), summary |-> new_summary])

AppendSummaryRestart(summaries, new_summary) ==
  <<[step |-> 1, summary |-> new_summary]>>

AppendSummary(summaries, new_summary) ==
  Append(summaries, [step |-> Len(summaries) + 1, summary |-> new_summary])

\* lines 122-147: the ledger file after the call, and the remote calls made
AdvanceLedgerEarlyWrite(summaries, all_messages, summarize_code_fragments, env) ==
  IF Len(summaries) < Len(all_messages)
    THEN LET content == all_messages[Len(summaries) + 1].content
             call == RemoteCall("incremental_summary",
                       <<UserMsg(<<"Summarize for context:">> \o content)>>, 1, env)
         IN  [ok |-> call.ok, calls |-> <<call>>,
              summaries |-> AppendSummary(summaries, call.reply)]
    ELSE [ok |-> TRUE, calls |-> <<>>, summaries |-> summaries]

AdvanceLedgerAlways(summaries, all_messages, summarize_code_fragments, env) ==
  IF all_messages # <<>>
    THEN [ok |-> TRUE, calls |-> <<>>,
          summaries |-> AppendSummary(summaries,
             all_messages[Min(Len(summaries) + 1, Len(all_messages))].content)]
    ELSE [ok |-> TRUE, calls |-> <<>>, summaries |-> summaries]

AdvanceLedgerTwoSteps(summaries, all_messages, summarize_code_fragments, env) ==
  IF Len(summaries) + 1 < Len(all_messages)
    THEN [ok |-> TRUE, calls |-> <<>>,
          summaries |-> AppendSummary(
             AppendSummary(summaries, all_messages[Len(summaries) + 1].content),
             all_messages[Len(summaries) + 2].content)]
    ELSE [ok |-> TRUE, calls |-> <<>>, summaries |-> summaries]

AdvanceLedgerResummarize(summaries, all_messages, summarize_code_fragments, env) ==
  IF all_messages # <<>>
    THEN LET content == all_messages[Min(Len(summaries) + 1,
                                         Len(all_messages))].content
             call == RemoteCall("incremental_summary",
                       <<UserMsg(<<"Summarize for context:">> \o content)>>, 1, env)
         IN  [ok |-> call.ok, calls |-> <<call>>,
              summaries |-> IF call.ok /\ Len(summaries) < Len(all_messages)
                              THEN AppendSummary(summaries, call.reply)
                              ELSE summaries]
    ELSE [ok |-> TRUE, calls |-> <<>>, summaries |-> summaries]

AdvanceLedger(summaries, all_messages, summarize_code_fragments, env) ==
  IF Len(summaries) < Len(all_messages)
    THEN LET content == all_messages[Len(summaries) + 1].content
         IN  IF ~summarize_code_fragments /\ HasFence(content)
               THEN [ok |-> TRUE, calls |-> <<>>,
                     summaries |-> AppendSummary(summaries, content)]
               ELSE LET call == RemoteCall("incremental_summary",
                          <<UserMsg(<<"Summarize for context:">> \o content)>>,
                          1, env)
                    IN  [ok |-> call.ok, calls |-> <<call>>,
                         summaries |-> IF call.ok
                                         THEN AppendSummary(summaries, call.reply)
                                         ELSE summaries]
    ELSE [ok |-> TRUE, calls |-> <<>>, summaries |-> summaries]

\* the whole function: [status, ledger file afterwards, returned messages, calls]
prepare_history_messages_incremental(prof, files, summaries, env) ==
  IF ~prof.include_history
    THEN [status |-> "ok", summaries |-> summaries, messages |-> <<>>,
          calls |-> <<>>]
  ELSE IF prof.mode = NoMode
    \* lines 108 and 112: os.path.join(..., None) raises TypeError
    THEN [status |-> "no_mode", summaries |-> summaries, messages |-> <<>>,
          calls |-> <<>>]
    ELSE LET adv == AdvanceLedger(summaries, LoadHistory(files),
                                  prof.summarize_code_fragments, env)
         IN  [status |-> IF adv.ok THEN "ok" ELSE "failed",
              summaries |-> adv.summaries,
              messages |-> IF adv.ok
                 THEN EntriesToMessages(
                        Select(adv.summaries, prof.keep_first_n, prof.keep_last_n,
                               prof.max_turns, prof.full_summary))
                 ELSE <<>>,
              calls |-> adv.calls]

----------------------------------------------------------------------------
(* Full Summarizer: prepare_history_messages *)

SummaryInstruction ==
  UserMsg(<<"You will receive a set of messages", "Summarize their content">>)

\* line 58: the budget gate
OverBudgetInclusive(token_count, max_tokens_summary_input) ==
  token_count >= max_tokens_summary_input

OverBudget(token_count, max_tokens_summary_input) ==
  token_count > max_tokens_summary_input

\* [status, selected, summary (one text, or none), calls]; status "exit" is
\* sys.exit(1)
prepare_history_messages(prof, files, env) ==
  IF ~prof.include_history
    THEN [status |-> "ok", selected |-> <<>>, summary |-> <<>>, calls |-> <<>>]
  ELSE IF prof.mode = NoMode
    \* line 40: os.path.join(CONVERSATIONS_DIR, None) raises TypeError
    THEN [status |-> "no_mode", selected |-> <<>>, summary |-> <<>>,
          calls |-> <<>>]
    ELSE
      LET selected == Select(LoadHistory(files), prof.keep_first_n,
                             prof.keep_last_n, prof.max_turns, prof.full_summary)
      IN  IF StartsWithGpt35(prof.model)
            THEN [status |-> "ok", selected |-> selected, summary |-> <<>>,
                  calls |-> <<>>]
          ELSE IF OverBudget(count_tokens(selected), prof.max_tokens_summary_input)
            THEN [status |-> "exit", selected |-> selected, summary |-> <<>>,
                  calls |-> <<>>]
          ELSE LET call == RemoteCall("history_summary",
                                      <<SummaryInstruction>> \o selected, 1, env)
               IN  [status |-> IF call.ok THEN "ok" ELSE "failed",
                    selected |-> selected,
                    summary |-> IF call.ok THEN <<call.reply>> ELSE <<>>,
                    calls |-> <<call>>]

----------------------------------------------------------------------------
(* File Ingestor: process_uploaded_files *)

\* one entry of the loop, lines 211-240; n is the number its remote call gets
IngestEntrySkipMissing(entry, summarize_text, n, env) ==
  IF FileText(entry.path) = Missing
    THEN [status |-> "ok", messages |-> <<>>, calls |-> <<>>]
    ELSE [status |-> "ok", messages |-> <<UserMsg(FileText(entry.path))>>,
          calls |-> <<>>]

IngestEntry(entry, summarize_text, n, env) ==
  LET path == entry.path
      text == FileText(path)
      Verbatim(t) == [status |-> "ok", messages |-> <<UserMsg(t)>>, calls |-> <<>>]
      Summarized(site, instruction) ==
        LET call == RemoteCall(site, <<UserMsg(<<instruction>> \o text)>>, n, env)
        IN  [status |-> IF call.ok THEN "ok" ELSE "failed",
             messages |-> IF call.ok THEN <<UserMsg(call.reply)>> ELSE <<>>,
             calls |-> <<call>>]
  IN  IF text = Missing
        THEN [status |-> "missing", messages |-> <<>>, calls |-> <<>>]
      ELSE IF Ext(path) = ".txt"
        THEN IF summarize_text THEN Summarized("text_file", "Summarize text:")
                               ELSE Verbatim(text)
      ELSE IF Ext(path) \in CodeExts
        THEN IF SummarizeFlag(entry)
               THEN Summarized("code_file", "Analyze code:")
               ELSE Verbatim(<<FENCE, "python">> \o text \o <<FENCE>>)
      ELSE Verbatim(text)

\* the loop over uploaded_files; n0 remote calls were made before it.  The
\* first entry that raises ends the loop: [status, messages, calls, done]
\* with done the number of entries fully processed
RECURSIVE IngestFrom(_, _, _, _, _)
IngestFrom(uploaded_files, i, acc, summarize_text, env) ==
  IF i > Len(uploaded_files) THEN acc
  ELSE LET r == IngestEntry(uploaded_files[i], summarize_text,
                            acc.n0 + Len(acc.calls) + 1, env)
           next == [acc EXCEPT !.status = r.status,
                               !.messages = acc.messages \o r.messages,
                               !.calls = acc.calls \o r.calls,
                               !.done = IF r.status = "ok" THEN i ELSE acc.done]
       IN  IF r.status = "ok"
             THEN IngestFrom(uploaded_files, i + 1, next, summarize_text, env)
             ELSE next

process_uploaded_files(uploaded_files, summarize_text, n0, env) ==
  IngestFrom(uploaded_files, 1,
             [status |-> "ok", messages |-> <<>>, calls |-> <<>>, done |-> 0,
              n0 |-> n0],
             summarize_text, env)

----------------------------------------------------------------------------
(* Context Assembler: build_messages_from_context *)

\* line 286
AssembleFilesFirst(context_messages, file_messages, user_prompt) ==
  file_messages \o context_messages \o <<UserMsg(user_prompt)>>

Assemble(context_messages, file_messages, user_prompt) ==
  context_messages \o file_messages \o <<UserMsg(user_prompt)>>

\* lines 266-280: the history step; [status, summaries, messages, calls]
HistoryStep(prof, files, summaries, env) ==
  IF prof.incremental_history
    THEN prepare_history_messages_incremental(prof, files, summaries, env)
    ELSE LET h == prepare_history_messages(prof, files, env)
         IN  [status |-> h.status, summaries |-> summaries,
              messages |-> IF h.summary # <<>> /\ h.summary[1] # <<>>
                             THEN Append(h.selected, UserMsg(h.summary[1]))
                             ELSE h.selected,
              calls |-> h.calls]

BuildLedgerAtReturn(user_prompt, uploaded_files, prof, files, summaries, env) ==
  LET h == HistoryStep(prof, files, summaries, env)
      f == IF h.status = "ok"
             THEN process_uploaded_files(uploaded_files, prof.summarize_txt_files,
                                         Len(h.calls), env)
             ELSE [status |-> "skipped", messages |-> <<>>, calls |-> <<>>,
                   done |-> 0, n0 |-> 0]
      returns == h.status = "ok" /\ f.status = "ok"
  IN  [status |-> CASE h.status = "failed" -> "history_failed"
                    [] h.status = "exit" -> "history_exit"
                    [] h.status = "no_mode" -> "history_no_mode"
                    [] f.status = "failed" -> "files_failed"
                    [] f.status = "missing" -> "files_missing"
                    [] OTHER -> "ok",
       summaries |-> IF returns THEN h.summaries ELSE summaries,
       context |-> h.messages,
       file_messages |-> f.messages,
       messages |-> IF returns THEN Assemble(h.messages, f.messages, user_prompt)
                               ELSE <<>>,
       history_calls |-> h.calls,
       calls |-> h.calls \o f.calls]

\* [status, summaries (the ledger file afterwards), context (the history
\* messages), file_messages, messages (what is returned), history_calls, calls]
build_messages_from_context(user_prompt, uploaded_files, prof, files, summaries, env) ==
  LET h == HistoryStep(prof, files, summaries, env)
      f == IF h.status = "ok"
             THEN process_uploaded_files(uploaded_files, prof.summarize_txt_files,
                                         Len(h.calls), env)
             ELSE [status |-> "skipped", messages |-> <<>>, calls |-> <<>>,
                   done |-> 0, n0 |-> 0]
      returns == h.status = "ok" /\ f.status = "ok"
  IN  [status |-> CASE h.status = "failed" -> "history_failed"
                    [] h.status = "exit" -> "history_exit"
                    [] h.status = "no_mode" -> "history_no_mode"
                    [] f.status = "failed" -> "files_failed"
                    [] f.status = "missing" -> "files_missing"
                    [] OTHER -> "ok",
       summaries |-> h.summaries,
       context |-> h.messages,
       file_messages |-> f.messages,
       messages |-> IF returns THEN Assemble(h.messages, f.messages, user_prompt)
                               ELSE <<>>,
       history_calls |-> h.calls,
       calls |-> h.calls \o f.calls]

----------------------------------------------------------------------------
(* Persistence: storage.save_conversation *)

\* os.path.join(CONVERSATIONS_DIR, mode): the folder the history is read from
\* (context_manager.py lines 40 and 112)
ReadFolder(prof) == <<DefaultRoot, prof.mode>>

\* storage.py lines 26-27, with the mode run_chat_engine passes at line 137:
\* the folder the record of a turn is written to
WriteFolder(prof) ==
  <<prof.CONV_DIR, IF prof.mode = NoMode THEN "general" ELSE prof.mode>>

\* lines 34-38: "<timestamp>__<slug>.json", the timestamp to the minute
FileName(now, description) == [stamp |-> now, desc |-> description]

\* lines 51-53: open(path, "w") creates the file or replaces its content; a
\* written file is the most recently modified one of its folder
WriteFile(files, name, messages) ==
  SelectSeq(files, LAMBDA r : r.name # name)
    \o <<[name |-> name, messages |-> messages]>>

\* chat_engine.py lines 125-130
LastTurn(prof, user_prompt, response) ==
  (IF prof.system_prompt # <<>>
     THEN <<[role |-> "system", content |-> prof.system_prompt]>> ELSE <<>>)
  \o <<[role |-> "user", content |-> user_prompt],
       [role |-> "assistant", content |-> response]>>

save_conversation(files, now, prof, user_prompt, response) ==
  WriteFile(files, FileName(now, slugify(user_prompt)),
            LastTurn(prof, user_prompt, response))

----------------------------------------------------------------------------
(* One turn: chat_engine.run_chat_engine, and the passing of time *)

MaxRecords == 1    \* record files the category folder may hold
MaxMinute == 1     \* last minute of the wall clock

LastIdle == [stage |-> "none", repeat |-> FALSE]
LdIdle == [done |-> FALSE]
ProcIdle == [alive |-> FALSE]
RtIdle == [done |-> FALSE]
RaceIdle == [on |-> FALSE]
SelIdle == [site |-> "none", done |-> FALSE]
IngIdle == [done |-> FALSE]
AsmIdle == [done |-> FALSE]

\* the file lists main() builds: every reference carries its flag
Uploads ==
  { <<>>,
    <<[path |-> <<"notes", ".txt">>, summarize |-> FALSE],
      [path |-> <<"tool", ".py">>, summarize |-> TRUE]>>,
    <<[path |-> <<"gone", ".txt">>, summarize |-> TRUE]>> }

\* the file lists of the turns of the model
TurnUploads == { uploaded_files \in Uploads : Len(uploaded_files) <= 1 }

\* the profiles the turns of the model run under
TurnProfiles ==
  { prof \in Profiles :
      \/ prof.incremental_history /\ prof.include_history
      \/ StartsWithGpt35(prof.model) }

Init ==
  /\ disk = EmptyDisk
  /\ ledger = <<>>
  /\ clock = 0
  /\ last = LastIdle /\ ld = LdIdle /\ proc = ProcIdle /\ rt = RtIdle
  /\ sel = SelIdle /\ race = RaceIdle
  /\ ing = IngIdle
  /\ asm = AsmIdle

Tick ==
  /\ clock < MaxMinute
  /\ clock' = clock + 1
  /\ UNCHANGED <<disk, ledger, last, sel, ing, asm, ld, proc, rt, race>>

\* The environments that differ when n remote calls are made: a failure
\* point among them, and an empty reply when a summary is returned at all.
EnvsFor(n, summaries_made) ==
  { env \in Envs :
      /\ env.failAt <= n
      /\ env.failAt = 0 => env.failKind = "error"
      /\ env.emptyReply => summaries_made /\ env.failAt # 1 }

\* the context built with no remote call failing: the number of remote calls
\* made, and whether it gets as far as returning
DryRun(uploaded_files, prof, files, summaries) ==
  LET b == build_messages_from_context(<<>>, uploaded_files, prof, files,
                                       summaries, NoFail)
  IN  [n |-> Len(b.calls), built |-> b.status = "ok"]

\* a turn that is not saved leaves no trace of its prompt: one prompt stands
\* for them all
PromptsFor(prompts, saved) == IF saved THEN prompts ELSE {<<"fix">>}

\* the profile of a name that profiles.json does not have
NoProfile == [name |-> "unknown"]

\* the stages a turn ends in once its history step has returned
AfterHistory == {"files_missing", "files_failed", "ok", "completion_failed", "done"}

\* lines 85-141: the context is built, the completion call made, the turn saved.
\* last.repeat: the call before this one ran under the same profile, its history
\* step returned too, and no record was written in between
RunChatEngine(user_prompt, uploaded_files, prof, env, response) ==
  IF prof = NoProfile
    \* line 82: load_config raises KeyError for a name profiles.json lacks
    THEN /\ last' = [stage |-> "config_error", repeat |-> FALSE]
         /\ UNCHANGED <<disk, ledger, clock, sel, ing, asm, ld, rt, race>>
    ELSE
      \E b \in {build_messages_from_context(user_prompt, uploaded_files, prof,
                                            FilesAt(disk, ReadFolder(prof)),
                                            ledger, env)} :
        LET completed == b.status = "ok" /\ env.failAt # Len(b.calls) + 1
            folder == WriteFolder(prof)
        IN  /\ ledger' = b.summaries
            /\ disk' = IF completed
                         THEN [disk EXCEPT ![folder] =
                                 save_conversation(disk[folder], clock, prof,
                                                   user_prompt, response)]
                         ELSE disk
            /\ \A f \in Folders : Len(disk'[f]) <= MaxRecords
            /\ last' = [stage |-> IF b.status # "ok" THEN b.status
                                  ELSE IF completed THEN "done"
                                  ELSE "completion_failed",
                        failure |-> IF env.failAt > 0 THEN env.failKind ELSE "none",
                        prof |-> prof,
                        ledger0 |-> ledger,
                        history0 |-> LoadHistory(FilesAt(disk, ReadFolder(prof))),
                        context |-> b.context, history_calls |-> b.history_calls,
                        turn |-> IF completed
                                   THEN LastTurn(prof, user_prompt, response)
                                   ELSE <<>>,
                        repeat |-> /\ last.stage \in AfterHistory \ {"done"}
                                   /\ last.prof = prof
                                   /\ b.status \in AfterHistory]
            /\ UNCHANGED <<clock, sel, ing, asm, ld, rt, race>>

\* a turn of a single-run invocation of main(), lines 88-98
SingleRun(profiles, uploads, prompts) ==
  \E uploaded_files \in uploads, prof \in profiles :
    \E dry \in {DryRun(uploaded_files, prof, FilesAt(disk, ReadFolder(prof)),
                        ledger)} :
      \E env \in EnvsFor(dry.n + (IF dry.built THEN 1 ELSE 0), FALSE),
         response \in Responses :
        \E user_prompt \in PromptsFor(prompts, dry.built /\ env.failAt = 0) :
          /\ RunChatEngine(user_prompt, uploaded_files, prof, env, response)
          /\ UNCHANGED proc

Next ==
  \/ Tick
  \/ SingleRun(TurnProfiles, TurnUploads, Prompts)

Spec == Init /\ [][Next]_vars

----------------------------------------------------------------------------
(* The interactive loop of main(), lines 65-86 *)

MaxInputs == 3     \* lines the user types into one process

\* the profile names given with --profile: one of the incremental strategy,
\* one of the full summarizer, one that profiles.json does not have
LoopProfiles ==
  { BaseProfile, [BaseProfile EXCEPT !.incremental_history = FALSE], NoProfile }

LoopUploads ==
  { <<>>, <<[path |-> <<"gone", ".txt">>, summarize |-> TRUE]>> }

\* a process started with --interactive: the profile name and the file list
\* are fixed by its command line
LoopInit ==
  /\ \E prof \in LoopProfiles, uploaded_files \in LoopUploads :
       proc = [alive |-> TRUE, exit |-> "none", inputs |-> 0, prof |-> prof,
               uploaded_files |-> uploaded_files]
  /\ disk = EmptyDisk /\ ledger = <<>> /\ clock = 0
  /\ last = LastIdle /\ ld = LdIdle /\ rt = RtIdle
  /\ sel = SelIdle /\ race = RaceIdle /\ ing = IngIdle /\ asm = AsmIdle

\* how a turn that does not return leaves run_chat_engine: sys.exit raises
\* SystemExit, everything else is an exception of the failing call
Raised(stage) ==
  CASE stage = "done" -> "none"
    [] stage = "history_exit" -> "SystemExit"
    [] OTHER -> "exception"

\* lines 70-86: a prompt is read and run_chat_engine called; the call is not
\* inside any try, so what it raises leaves the loop and main()
InteractiveTurn ==
  /\ proc.alive /\ proc.inputs < MaxInputs
  /\ IF proc.prof = NoProfile
       THEN RunChatEngine(<<"fix">>, proc.uploaded_files, proc.prof, NoFail,
                          <<"ok">>)
       ELSE \E dry \in {DryRun(proc.uploaded_files, proc.prof,
                                FilesAt(disk, ReadFolder(proc.prof)), ledger)} :
              \E env \in EnvsFor(dry.n + (IF dry.built THEN 1 ELSE 0), FALSE),
                 response \in Responses :
                \E user_prompt \in PromptsFor(Prompts,
                                               dry.built /\ env.failAt = 0) :
                  RunChatEngine(user_prompt, proc.uploaded_files, proc.prof,
                                env, response)
  /\ proc' = [proc EXCEPT !.inputs = @ + 1,
                          !.alive = last'.stage = "done",
                          !.exit = Raised(last'.stage)]

\* lines 77-78: an empty line is read and the loop goes on
BlankLine ==
  /\ proc.alive /\ proc.inputs < MaxInputs
  /\ proc' = [proc EXCEPT !.inputs = @ + 1]
  /\ UNCHANGED <<disk, ledger, clock, last, sel, ing, asm, ld, rt, race>>

\* lines 71-76: "exit", "quit", end of input or Ctrl-C at the prompt
Quit ==
  /\ proc.alive
  /\ proc' = [proc EXCEPT !.alive = FALSE, !.exit = "quit"]
  /\ UNCHANGED <<disk, ledger, clock, last, sel, ing, asm, ld, rt, race>>

LoopNext == InteractiveTurn \/ BlankLine \/ Quit \/ Tick

SpecLoop == LoopInit /\ [][LoopNext]_vars

----------------------------------------------------------------------------
(* One remote call point inside its retry loop *)

MaxConfigured == 2 \* largest max_retries a profile sets
MaxTransient == 7  \* most transient errors in a row the service gives

\* the defaults of the parameters max_retries and retry_delay (seconds)
DefaultMaxRetries == 5
DefaultRetryDelay == 3

\* the literals in summarize_text_file and summarize_code_flow
FileMaxRetries == 5
FileRetryDelay == 3

Sites == {"history_summary", "incremental_summary", "text_file", "code_file",
          "completion"}

\* the bound and the delay a call point works with.  run_chat_engine passes
\* neither config["max_retries"] nor config["retry_delay"] to
\* build_messages_from_context or to call_openai_chat, so the three loops
\* that have the parameters run with their defaults
MaxRetriesUsed(site, config) ==
  IF site \in {"text_file", "code_file"} THEN FileMaxRetries
  ELSE DefaultMaxRetries

RetryDelayUsed(site, config) ==
  IF site \in {"text_file", "code_file"} THEN FileRetryDelay
  ELSE DefaultRetryDelay

\* load_config, lines 73-74: the profile's values, or the defaults
RetryConfigs ==
  [max_retries : (0..MaxConfigured) \cup {DefaultMaxRetries},
   retry_delay : {1, DefaultRetryDelay}]

\* the service gives rt.transient rate-limit or API errors in a row, then
\* what rt.after says: a reply, or an error of another kind
RtInit ==
  /\ \E site \in Sites, config \in RetryConfigs, transient \in 0..MaxTransient,
        after \in {"reply", "other_error"} :
       rt = [done |-> FALSE, site |-> site, config |-> config,
             transient |-> transient, after |-> after,
             attempt |-> 0, calls |-> 0, slept |-> 0, status |-> "calling"]
  /\ disk = EmptyDisk /\ ledger = <<>> /\ clock = 0
  /\ last = LastIdle /\ ld = LdIdle /\ proc = ProcIdle
  /\ sel = SelIdle /\ race = RaceIdle /\ ing = IngIdle /\ asm = AsmIdle

\* the call returns: return resp.choices[0].message.content
CallReturns ==
  /\ ~rt.done /\ rt.calls = rt.transient /\ rt.after = "reply"
  /\ rt' = [rt EXCEPT !.calls = @ + 1, !.done = TRUE, !.status = "returned"]
  /\ UNCHANGED <<disk, ledger, clock, last, sel, ing, asm, ld, proc, race>>

\* except (RateLimitError, APIError): one more attempt is counted; past the
\* bound the error is raised again, else the loop sleeps and calls again
TransientError ==
  /\ ~rt.done /\ rt.calls < rt.transient
  /\ rt' = IF rt.attempt + 1 > MaxRetriesUsed(rt.site, rt.config)
             THEN [rt EXCEPT !.calls = @ + 1, !.attempt = @ + 1,
                             !.done = TRUE, !.status = "raised"]
             ELSE [rt EXCEPT !.calls = @ + 1, !.attempt = @ + 1,
                             !.slept = @ + RetryDelayUsed(rt.site, rt.config)]
  /\ UNCHANGED <<disk, ledger, clock, last, sel, ing, asm, ld, proc, race>>

\* any other exception leaves the loop at once
OtherError ==
  /\ ~rt.done /\ rt.calls = rt.transient /\ rt.after = "other_error"
  /\ rt' = [rt EXCEPT !.calls = @ + 1, !.done = TRUE, !.status = "raised"]
  /\ UNCHANGED <<disk, ledger, clock, last, sel, ing, asm, ld, proc, race>>

RtNext == CallReturns \/ TransientError \/ OtherError

SpecRetry == RtInit /\ [][RtNext]_vars

----------------------------------------------------------------------------
(* Turns under every configuration of the conversation folders *)

\* profiles with and without a mode, under the default conversation root
\* and under a root set through CONV_DIR (config.py lines 21-23)
DirProfiles ==
  { BaseProfile,
    [BaseProfile EXCEPT !.CONV_DIR = OtherRoot],
    [BaseProfile EXCEPT !.mode = NoMode],
    [BaseProfile EXCEPT !.mode = NoMode, !.include_history = FALSE] }

DirsNext ==
  \/ Tick
  \/ SingleRun(DirProfiles, {<<>>}, {<<"fix">>, <<"run">>})

SpecDirs == Init /\ [][DirsNext]_vars

----------------------------------------------------------------------------
(* build_messages_from_context applied once, to a history and a ledger that
   earlier turns left behind *)

MaxPast == 2       \* turns saved before the call

SeqsUpTo(A, n) == UNION {[1..k -> A] : k \in 0..n}

\* the category folder after turns with these prompts, one per minute
RECURSIVE StoreAfter(_)
StoreAfter(prompts) ==
  IF prompts = <<>> THEN <<>>
  ELSE save_conversation(StoreAfter(SubSeq(prompts, 1, Len(prompts) - 1)),
                         Len(prompts), BaseProfile, prompts[Len(prompts)],
                         <<"ok">>)

\* the ledger after k invocations of the incremental summarizer on that folder
RECURSIVE LedgerAfter(_, _)
LedgerAfter(files, k) ==
  IF k = 0 THEN <<>>
  ELSE AdvanceLedger(LedgerAfter(files, k - 1), LoadHistory(files), TRUE,
                     NoFail).summaries

LongPast == 10     \* turns saved before the call with a long history

\* the pasts tried: every sequence of a few prompts, and one prompt many times
Pasts ==
  SeqsUpTo(Prompts, MaxPast)
    \cup { [i \in 1..n |-> <<"run">>] : n \in (MaxPast + 1)..LongPast }

\* the profile of the defaults of run_chat_engine, lines 90-98, and the same
\* with the full summarizer
DefaultsProfile ==
  [BaseProfile EXCEPT !.keep_first_n = 3, !.keep_last_n = 5, !.max_turns = 12,
                      !.max_tokens_summary_input = 3000]

BuildProfiles ==
  Profiles \cup { DefaultsProfile,
                  [DefaultsProfile EXCEPT !.incremental_history = FALSE] }

BuildPrompts == Prompts \cup { <<"explain">> }

BuildUploads ==
  Uploads \cup { <<[path |-> <<"notes", ".txt">>, summarize |-> FALSE]>> }

BuildInit ==
  /\ \E prompts \in Pasts :
       \E k \in 0..(2 * Len(prompts)) :
         /\ disk = OnlyCategory(StoreAfter(prompts))
         /\ ledger = LedgerAfter(StoreAfter(prompts), k)
  /\ clock = LongPast + 1
  /\ \E user_prompt \in BuildPrompts, uploaded_files \in BuildUploads,
        prof \in BuildProfiles :
       \E dry \in {DryRun(uploaded_files, prof, store, ledger)} :
         \E env \in EnvsFor(dry.n, dry.n >= 1) :
           asm = [done |-> FALSE, user_prompt |-> user_prompt,
                  uploaded_files |-> uploaded_files, prof |-> prof, env |-> env]
  /\ last = LastIdle /\ ld = LdIdle /\ proc = ProcIdle /\ rt = RtIdle
  /\ sel = SelIdle /\ race = RaceIdle /\ ing = IngIdle

BuildMessages ==
  /\ ~asm.done
  /\ \E b \in {build_messages_from_context(asm.user_prompt, asm.uploaded_files,
                                           asm.prof, store, ledger, asm.env)} :
       /\ ledger' = b.summaries
       /\ asm' = [done |-> TRUE, user_prompt |-> asm.user_prompt,
                  uploaded_files |-> asm.uploaded_files, prof |-> asm.prof,
                  env |-> asm.env, ledger0 |-> ledger, status |-> b.status,
                  context |-> b.context, file_messages |-> b.file_messages,
                  messages |-> b.messages, history_calls |-> b.history_calls,
                  calls |-> b.calls]
  /\ UNCHANGED <<disk, clock, last, sel, ing, ld, proc, rt, race>>

BuildNext == BuildMessages

SpecBuild == BuildInit /\ [][BuildNext]_vars

----------------------------------------------------------------------------
(* Two processes running the incremental summarizer on one category.  The
   function reads the ledger file (lines 115-119), summarizes the next message
   (lines 122-144) and writes the whole list back (lines 145-147), and holds
   no lock in between. *)

MaxRuns == 2       \* invocations each process makes
RacePast == 2      \* turns saved before the processes start

Procs == {1, 2}

ProcIdleRace == [pc |-> "idle", runs |-> 0, summaries |-> <<>>]

\* race.serial: an invocation starts only when no other is under way
RaceInit ==
  /\ \E prompts \in SeqsUpTo({<<"fix">>, <<"run">>}, RacePast),
        k \in 0..1, serial \in BOOLEAN :
       /\ prompts # <<>>
       /\ disk = OnlyCategory(StoreAfter(prompts))
       /\ ledger = LedgerAfter(StoreAfter(prompts), k)
       /\ race = [on |-> TRUE, serial |-> serial,
                  procs |-> [p \in Procs |-> ProcIdleRace],
                  summarized |-> [i \in 1..(2 * Len(prompts)) |-> 0],
                  shrunk |-> FALSE]
  /\ clock = RacePast + 1
  /\ last = LastIdle /\ ld = LdIdle /\ proc = ProcIdle /\ rt = RtIdle
  /\ sel = SelIdle /\ ing = IngIdle /\ asm = AsmIdle

\* lines 115-122: history and ledger are loaded; with nothing left to
\* summarize the invocation goes on to the selection and returns
ReadLedger(p) ==
  /\ race.procs[p].pc = "idle" /\ race.procs[p].runs < MaxRuns
  /\ race.serial => \A q \in Procs : race.procs[q].pc = "idle"
  /\ race' = [race EXCEPT
       !.procs[p] = [pc |-> IF Len(ledger) < Len(LoadHistory(store))
                              THEN "read" ELSE "idle",
                     runs |-> @.runs + 1,
                     summaries |-> ledger]]
  /\ UNCHANGED <<disk, ledger, clock, last, sel, ing, asm, ld, proc, rt>>

\* lines 123-145: the next message is summarized and appended to the list in
\* memory; a call that fails ends the invocation
Summarize(p) ==
  /\ race.procs[p].pc = "read"
  /\ \E env \in EnvsFor(1, FALSE) :
       \E adv \in {AdvanceLedger(race.procs[p].summaries, LoadHistory(store),
                                 TRUE, env)} :
         race' = IF adv.ok
           THEN [race EXCEPT
                  !.procs[p] = [@ EXCEPT !.pc = "summarized",
                                         !.summaries = adv.summaries],
                  !.summarized[Len(race.procs[p].summaries) + 1] = @ + 1]
           ELSE [race EXCEPT !.procs[p] = [@ EXCEPT !.pc = "idle"]]
  /\ UNCHANGED <<disk, ledger, clock, last, sel, ing, asm, ld, proc, rt>>

\* lines 146-147: the list in memory replaces the ledger file
WriteLedger(p) ==
  /\ race.procs[p].pc = "summarized"
  /\ ledger' = race.procs[p].summaries
  /\ race' = [race EXCEPT
       !.procs[p] = [@ EXCEPT !.pc = "idle"],
       !.shrunk = @ \/ Len(race.procs[p].summaries) < Len(ledger)]
  /\ UNCHANGED <<disk, clock, last, sel, ing, asm, ld, proc, rt>>

RaceNext ==
  \E p \in Procs : ReadLedger(p) \/ Summarize(p) \/ WriteLedger(p)

SpecRace == RaceInit /\ [][RaceNext]_vars

----------------------------------------------------------------------------
(* process_uploaded_files applied once to a list of file references *)

\* a reference names a path and may carry a "summarize" flag
FileRefs == [path : Paths, summarize : BOOLEAN] \cup [path : Paths]

IngInit ==
  /\ \E uploaded_files \in SeqsUpTo(FileRefs, MaxFiles), summarize_text \in BOOLEAN :
       \E n \in {Len(process_uploaded_files(uploaded_files, summarize_text, 0,
                                            NoFail).calls)} :
         \E env \in EnvsFor(n, n >= 1) :
           ing = [done |-> FALSE, uploaded_files |-> uploaded_files,
                  summarize_text |-> summarize_text, env |-> env]
  /\ disk = EmptyDisk /\ ledger = <<>> /\ clock = 0
  /\ last = LastIdle /\ ld = LdIdle /\ proc = ProcIdle /\ rt = RtIdle
  /\ sel = SelIdle /\ race = RaceIdle /\ asm = AsmIdle

IngestFiles ==
  /\ ~ing.done
  /\ \E r \in {process_uploaded_files(ing.uploaded_files, ing.summarize_text, 0,
                                      ing.env)} :
       ing' = [done |-> TRUE, uploaded_files |-> ing.uploaded_files,
               summarize_text |-> ing.summarize_text, env |-> ing.env,
               status |-> r.status, messages |-> r.messages, calls |-> r.calls,
               processed |-> r.done]
  /\ UNCHANGED <<disk, ledger, clock, last, sel, asm, ld, proc, rt, race>>

IngNext == IngestFiles

SpecFiles == IngInit /\ [][IngNext]_vars

----------------------------------------------------------------------------
(* order_and_strip_metadata applied once to a folder *)

MaxListing == 2    \* files in the folder
MaxMtime == 2      \* latest modification time

\* what the files of a folder hold: records as save_conversation writes
\* them, documents with other roles and extra keys, a document without
\* "messages", a file that is not JSON, messages without "role" or "content"
Datas ==
  { [valid |-> TRUE,
     messages |-> <<[role |-> "system", content |-> <<"be", "brief">>],
                    [role |-> "user", content |-> <<"fix">>],
                    [role |-> "assistant", content |-> <<"ok">>]>>],
    [valid |-> TRUE,
     messages |-> <<[role |-> "assistant", content |-> <<"done">>],
                    [role |-> "tool", content |-> <<"out">>],
                    [role |-> "user", content |-> <<"run">>, name |-> "me"]>>],
    [valid |-> TRUE],
    [valid |-> FALSE],
    [valid |-> TRUE,
     messages |-> <<[role |-> "user", content |-> <<"fix">>],
                    [content |-> <<"ok">>]>>],
    [valid |-> TRUE,
     messages |-> <<[role |-> "user"],
                    [role |-> "assistant", content |-> <<"ok">>]>>],
    [valid |-> TRUE, messages |-> <<[role |-> "system"]>>] }

FolderFiles ==
  { [name |-> <<"0", ext>>, mtime |-> t, data |-> data] :
      ext \in {".json", ".txt"}, t \in 1..MaxMtime, data \in Datas }

LdInit ==
  /\ \E exists \in BOOLEAN, listing \in SeqsUpTo(FolderFiles, MaxListing) :
       /\ ~exists => listing = <<>>
       /\ ld = [done |-> FALSE, exists |-> exists, listing |-> listing]
  /\ disk = EmptyDisk /\ ledger = <<>> /\ clock = 0
  /\ last = LastIdle /\ proc = ProcIdle /\ rt = RtIdle
  /\ sel = SelIdle /\ race = RaceIdle /\ ing = IngIdle /\ asm = AsmIdle

LoadFolder ==
  /\ ~ld.done
  /\ \E r \in {order_and_strip_metadata(ld.exists, ld.listing)} :
       ld' = [done |-> TRUE, exists |-> ld.exists, listing |-> ld.listing,
              status |-> r.status, out |-> r.messages, created |-> r.created]
  /\ UNCHANGED <<disk, ledger, clock, last, sel, ing, asm, proc, rt, race>>

LdNext == LoadFolder

SpecLoad == LdInit /\ [][LdNext]_vars

----------------------------------------------------------------------------
(* The history selection applied to one sequence, at either call site *)

\* loaded history: one message per element, roles alternating as turns do
HistoryOf(ks) ==
  [i \in 1..Len(ks) |->
     [role |-> IF i % 2 = 1 THEN "user" ELSE "assistant", content |-> Txt(ks[i])]]

\* a ledger: entry i has step i
LedgerOf(ks) == [i \in 1..Len(ks) |-> [step |-> i, summary |-> Txt(ks[i])]]

SelInit ==
  /\ \E ks \in SeqsUpTo(1..MaxLen, MaxLen), site \in {"history", "ledger"},
        kf \in 0..MaxKeep, kl \in 0..MaxKeep, mt \in 0..MaxKeep, fs \in BOOLEAN :
       sel = [site |-> site,
              S |-> IF site = "history" THEN HistoryOf(ks) ELSE LedgerOf(ks),
              keep_first_n |-> kf, keep_last_n |-> kl, max_turns |-> mt,
              full_summary |-> fs, done |-> FALSE, out |-> <<>>]
  /\ disk = EmptyDisk /\ ledger = <<>> /\ clock = 0
  /\ last = LastIdle /\ ld = LdIdle /\ proc = ProcIdle /\ rt = RtIdle
  /\ race = RaceIdle
  /\ ing = IngIdle /\ asm = AsmIdle

\* prepare_history_messages, lines 47-50: selected raw messages
SelectHistory ==
  /\ sel.site = "history" /\ ~sel.done
  /\ sel' = [sel EXCEPT !.done = TRUE,
               !.out = Select(sel.S, sel.keep_first_n, sel.keep_last_n,
                              sel.max_turns, sel.full_summary)]
  /\ UNCHANGED <<disk, ledger, clock, last, ing, asm, ld, proc, rt, race>>

\* prepare_history_messages_incremental, lines 150-155: selected entries as messages
SelectLedger ==
  /\ sel.site = "ledger" /\ ~sel.done
  /\ sel' = [sel EXCEPT !.done = TRUE,
               !.out = EntriesToMessages(
                         Select(sel.S, sel.keep_first_n, sel.keep_last_n,
                                sel.max_turns, sel.full_summary))]
  /\ UNCHANGED <<disk, ledger, clock, last, ing, asm, ld, proc, rt, race>>

SelNext == SelectHistory \/ SelectLedger

SpecSelect == SelInit /\ [][SelNext]_vars

----------------------------------------------------------------------------
(* Claims about the history selection *)

\* what the call site hands on for a chosen subsequence T of sel.S
AsOutput(T) == IF sel.site = "ledger" THEN EntriesToMessages(T) ELSE T

\* the first n and the last n elements of S (all of S when it has fewer)
FirstN(S, n) == SubSeq(S, 1, Min(n, Len(S)))
LastN(S, n) == SubSeq(S, Len(S) - Min(n, Len(S)) + 1, Len(S))

\* C1: with full_summary false and more than max_turns elements, the output
\* has exactly keep_first_n + keep_last_n elements: the first keep_first_n
\* elements of S followed by its last keep_last_n elements.
C1_Truncation ==
  (sel.done /\ ~sel.full_summary /\ Len(sel.S) > sel.max_turns)
    => /\ Len(sel.out) = sel.keep_first_n + sel.keep_last_n
       /\ sel.out = AsOutput(FirstN(sel.S, sel.keep_first_n)
                               \o LastN(sel.S, sel.keep_last_n))

\* C2: with full_summary true, or with at most max_turns elements, the
\* output is S unchanged, whatever keep_first_n and keep_last_n are.
C2_Identity ==
  (sel.done /\ (sel.full_summary \/ Len(sel.S) <= sel.max_turns))
    => sel.out = AsOutput(sel.S)

\* C2 witness: both identity cases happen on a sequence longer than either
\* window, once by the flag and once by the turn budget.
C2_Witness ==
  /\ sel.done /\ Len(sel.S) = 3 /\ sel.keep_first_n = 1 /\ sel.keep_last_n = 1
  /\ ~sel.full_summary /\ sel.max_turns = 3
  /\ Len(sel.out) = 3

----------------------------------------------------------------------------
(* Claims about the incremental summarizer and its ledger *)

\* the last turn ran the incremental summarizer and it returned
IncrementalReturned ==
  /\ last.stage \in AfterHistory
  /\ last.prof.incremental_history /\ last.prof.include_history

\* C3: an invocation that starts with ledger.length < history.length and
\* whose summarization step succeeds leaves the ledger exactly one entry
\* longer, the new entry being {step: old_length + 1, summary of
\* history[old_length]}; one that starts caught up leaves the ledger as it was.
C3_Progress ==
  IncrementalReturned =>
    LET old == Len(last.ledger0)
        call == last.history_calls
    IN  IF old < Len(last.history0)
          THEN LET content == last.history0[old + 1].content
               IN  /\ Len(ledger) = old + 1
                   /\ SubSeq(ledger, 1, old) = last.ledger0
                   /\ ledger[old + 1].step = old + 1
                   /\ IF call = <<>>
                        THEN /\ ~last.prof.summarize_code_fragments
                             /\ HasFence(content)
                             /\ ledger[old + 1].summary = content
                        ELSE /\ Len(call) = 1
                             /\ Contents(call[1].messages)
                                  = <<"Summarize for context:">> \o content
                             /\ ledger[old + 1].summary = call[1].reply
          ELSE ledger = last.ledger0 /\ call = <<>>

\* C3 witness: a turn found one entry for two messages and added the second
C3_Witness ==
  /\ IncrementalReturned
  /\ Len(last.ledger0) = 1 /\ Len(last.history0) = 2 /\ Len(ledger) = 2

\* C4 (as claimed): a second invocation in a row, with no record written in
\* between, leaves the ledger as the first left it and returns the same list.
C4_Idempotent ==
  [][ (clock' = clock /\ last'.repeat)
        => (ledger' = ledger /\ last'.context = last.context) ]_vars

\* C4 (amended): the same, for a second invocation that starts with the
\* ledger caught up with the history.
C4_IdempotentCaughtUp ==
  [][ (clock' = clock /\ last'.repeat /\ Len(ledger) >= Len(LoadHistory(store)))
        => (ledger' = ledger /\ last'.context = last.context) ]_vars

\* C4 witness: a second invocation in a row found a non-empty ledger caught up
C4_Witness ==
  /\ last.repeat
  /\ Len(last.ledger0) = Len(last.history0) /\ Len(last.ledger0) = 2
  /\ last.context # <<>>

\* C5: ledger[i].step = i + 1 (counting i from 0) in every reachable state,
\* and every later ledger extends the earlier one.
C5_StepAlignment ==
  /\ [](\A i \in 1..Len(ledger) : ledger[i].step = i)
  /\ [][ /\ Len(ledger) <= Len(ledger')
         /\ SubSeq(ledger', 1, Len(ledger)) = ledger ]_vars

\* C5 witness: a ledger of two entries after a turn that failed
C5_Witness ==
  /\ Len(ledger) = 2
  /\ last.stage \in {"history_failed", "files_missing", "completion_failed"}

\* what the summarizer may store for a message content
IsSummaryOf(summary, content) ==
  \/ summary = Digest(<<"Summarize for context:">> \o content)
  \/ summary = <<>>
  \/ HasFence(content) /\ summary = content

\* C6: the ledger is never longer than the loaded history, and entry i is
\* the summary of the message now at position i of the loaded history.
C6_Correspondence ==
  LET history == LoadHistory(store)
  IN  /\ Len(ledger) <= Len(history)
      /\ \A i \in 1..Min(Len(ledger), Len(history)) :
           IsSummaryOf(ledger[i].summary, history[i].content)

\* C7: when the remote summarization call of the incremental summarizer
\* fails, the ledger file is what it was before the invocation.
C7_LedgerUnchangedOnFailure ==
  (last.stage = "history_failed" /\ last.prof.incremental_history)
    => ledger = last.ledger0

\* C7 witness: the call for the second message was interrupted
C7_Witness ==
  /\ last.stage = "history_failed" /\ last.prof.incremental_history
  /\ last.failure = "interrupt"
  /\ Len(last.history_calls) = 1 /\ ~last.history_calls[1].ok
  /\ Len(last.ledger0) = 1

----------------------------------------------------------------------------
(* Claims about the full summarizer and the assembled list *)

\* the call ran the full summarizer on a loaded history
FullSummarizerRan ==
  asm.done /\ ~asm.prof.incremental_history /\ asm.prof.include_history

SelectedHistory ==
  Select(LoadHistory(store), asm.prof.keep_first_n, asm.prof.keep_last_n,
         asm.prof.max_turns, asm.prof.full_summary)

\* C8 (as claimed): for every model, a selected history of more than
\* max_tokens_summary_input tokens aborts the invocation with no remote
\* summarization call; a count equal to the ceiling does not abort.
C8_BudgetGateEveryModel ==
  FullSummarizerRan =>
    IF count_tokens(SelectedHistory) > asm.prof.max_tokens_summary_input
      THEN asm.status = "history_exit" /\ asm.calls = <<>>
      ELSE asm.status # "history_exit"

\* C8 (amended): the same for every model that does not start with
\* "gpt-3.5"; for a model that does, the invocation is never aborted and no
\* history summarization call is issued, whatever the count.
C8_BudgetGate ==
  FullSummarizerRan =>
    IF StartsWithGpt35(asm.prof.model)
      THEN asm.status # "history_exit" /\ asm.history_calls = <<>>
    ELSE IF count_tokens(SelectedHistory) > asm.prof.max_tokens_summary_input
      THEN asm.status = "history_exit" /\ asm.calls = <<>>
    ELSE /\ asm.status # "history_exit"
         /\ Len(asm.history_calls) = 1
         /\ asm.history_calls[1].site = "history_summary"

\* C8 witness: a gpt-4 call stopped by a history over the ceiling
C8_Witness ==
  /\ FullSummarizerRan /\ ~StartsWithGpt35(asm.prof.model)
  /\ count_tokens(SelectedHistory) > asm.prof.max_tokens_summary_input
  /\ asm.status = "history_exit"

\* a gpt-4 call whose history has exactly the ceiling's tokens is summarized
C8_AtCeiling ==
  /\ FullSummarizerRan /\ ~StartsWithGpt35(asm.prof.model)
  /\ count_tokens(SelectedHistory) = asm.prof.max_tokens_summary_input
  /\ asm.status = "ok"

\* what a file reference may contribute as its message
IsMessageOf(message, entry) ==
  LET text == FileText(entry.path)
  IN  /\ message.role = "user"
      /\ \/ message.content = text
         \/ message.content = <<FENCE, "python">> \o text \o <<FENCE>>
         \/ message.content = Digest(<<"Summarize text:">> \o text)
         \/ message.content = Digest(<<"Analyze code:">> \o text)
         \/ message.content = <<>>

\* C9: a list that is returned is the history messages of the chosen
\* strategy, then one message per file reference in input order, then one
\* user message holding the prompt as given.
C9_AssemblerOrder ==
  (asm.done /\ asm.status = "ok") =>
    LET out == asm.messages
        nh == Len(asm.context)
        nf == Len(asm.uploaded_files)
    IN  /\ Len(out) = nh + nf + 1
        /\ out[Len(out)] = [role |-> "user", content |-> asm.user_prompt]
        /\ SubSeq(out, 1, nh) = asm.context
        /\ \A j \in 1..nf : IsMessageOf(out[nh + j], asm.uploaded_files[j])
        /\ IF ~asm.prof.include_history THEN nh = 0
           ELSE IF asm.prof.incremental_history
             THEN asm.context
                    = EntriesToMessages(
                        Select(ledger, asm.prof.keep_first_n,
                               asm.prof.keep_last_n, asm.prof.max_turns,
                               asm.prof.full_summary))
           ELSE /\ SubSeq(asm.context, 1, Len(SelectedHistory)) = SelectedHistory
                /\ nh <= Len(SelectedHistory) + 1
                /\ nh = Len(SelectedHistory) + 1 =>
                     /\ Len(asm.history_calls) = 1
                     /\ asm.context[nh] = UserMsg(asm.history_calls[1].reply)

\* C9 witness: history, a summary, two files and the prompt, in that order
C9_Witness ==
  /\ asm.done /\ asm.status = "ok" /\ ~asm.prof.incremental_history
  /\ Len(asm.context) = 3 /\ Len(asm.uploaded_files) = 2
  /\ Len(asm.messages) = 6

\* the model identifier of the call begins with "gpt-3.5"
Lightweight == Len(asm.prof.model) >= 1 /\ asm.prof.model[1] = "gpt-3.5"

\* C21: for a model whose identifier starts with "gpt-3.5" the full
\* summarizer issues no remote summarization call, makes no token-budget
\* check (it never aborts, whatever the count) and returns the selected raw
\* messages with no summary: the assembled list is the selected messages,
\* the file messages and the prompt, with no summary message.
C21_LightweightBypass ==
  (FullSummarizerRan /\ Lightweight) =>
    /\ asm.history_calls = <<>>
    /\ asm.status \notin {"history_exit", "history_failed"}
    /\ asm.context = SelectedHistory
    /\ asm.status = "ok"
         => asm.messages = SelectedHistory \o asm.file_messages
                             \o <<UserMsg(asm.user_prompt)>>

\* C21 witness: a gpt-3.5-turbo call returns a selected history whose token
\* count is over the ceiling, as it is
C21_Witness ==
  /\ FullSummarizerRan /\ Lightweight /\ asm.status = "ok"
  /\ count_tokens(SelectedHistory) > asm.prof.max_tokens_summary_input
  /\ Len(asm.context) = 2
  /\ Len(asm.messages) = 3

----------------------------------------------------------------------------
(* End-to-end scenarios *)

\* scenario A: nothing saved yet, notes.txt ("hello") with summarize = false,
\* and the prompt "explain"
ScenarioA ==
  /\ asm.done /\ LoadHistory(store) = <<>> /\ asm.ledger0 = <<>>
  /\ asm.uploaded_files = <<[path |-> <<"notes", ".txt">>, summarize |-> FALSE]>>
  /\ asm.user_prompt = <<"explain">>

\* C12: in scenario A the assembled list is exactly [{user, "hello"},
\* {user, "explain"}] and no remote summarization call is made, for each
\* history strategy, model tier and value of the global summarize-text flag.
C12_ScenarioA ==
  ScenarioA =>
    /\ asm.status = "ok"
    /\ asm.messages = <<UserMsg(<<"hello">>), UserMsg(<<"explain">>)>>
    /\ asm.calls = <<>>

\* scenario B: 20 loaded messages, keep_first_n = 3, keep_last_n = 5,
\* max_turns = 12, the full summarizer, a model outside the lightweight tier,
\* a token count under the ceiling, no files, and the call returns
ScenarioB ==
  /\ FullSummarizerRan /\ asm.status = "ok"
  /\ Len(LoadHistory(store)) = 20
  /\ asm.prof.keep_first_n = 3 /\ asm.prof.keep_last_n = 5
  /\ asm.prof.max_turns = 12 /\ ~asm.prof.full_summary
  /\ ~StartsWithGpt35(asm.prof.model)
  /\ count_tokens(SelectedHistory) <= asm.prof.max_tokens_summary_input
  /\ asm.uploaded_files = <<>>

\* the first 3 and last 5 loaded messages, one summary message, the prompt
ScenarioBList ==
  LET history == LoadHistory(store)
  IN  /\ Len(asm.messages) >= 10
      /\ SubSeq(asm.messages, 1, 3) = SubSeq(history, 1, 3)
      /\ SubSeq(asm.messages, 4, 8) = SubSeq(history, 16, 20)
      /\ Len(asm.history_calls) = 1
      /\ asm.messages[9] = UserMsg(asm.history_calls[1].reply)
      /\ asm.messages[10] = UserMsg(asm.user_prompt)

\* C13 (as claimed): in scenario B the list is the first 3 and last 5 raw
\* messages, one summary message and the prompt, 9 messages in total.
C13_ScenarioBNine ==
  ScenarioB => (ScenarioBList /\ Len(asm.messages) = 9)

\* C13 (amended): in scenario B with a summary text that is not empty, the
\* list is the first 3 and last 5 raw messages, one summary message and the
\* prompt, 10 messages in total; with an empty summary text no summary
\* message is added and the list is the 8 raw messages and the prompt.
C13_ScenarioB ==
  ScenarioB =>
    IF asm.history_calls[1].reply # <<>>
      THEN ScenarioBList /\ Len(asm.messages) = 10
      ELSE asm.messages
             = SubSeq(LoadHistory(store), 1, 3)
                 \o SubSeq(LoadHistory(store), 16, 20)
                 \o <<UserMsg(asm.user_prompt)>>

\* C13 witness: scenario B with a summary
C13_Witness ==
  /\ ScenarioB /\ asm.history_calls[1].reply # <<>>
  /\ Len(asm.messages) = 10

\* C14: an invocation of the incremental summarizer that finds
\* ledger.length = history.length issues no remote call and leaves the
\* ledger as it is; if also ledger.length <= max_turns, it returns one user
\* message per ledger entry, in ledger order, holding that entry's summary.
C14_CaughtUp ==
  (/\ asm.done /\ asm.prof.incremental_history /\ asm.prof.include_history
   /\ Len(asm.ledger0) = Len(LoadHistory(store)))
    => /\ asm.history_calls = <<>>
       /\ ledger = asm.ledger0
       /\ asm.status # "history_failed"
       /\ Len(asm.ledger0) <= asm.prof.max_turns
            => asm.context
                 = [i \in 1..Len(asm.ledger0) |-> UserMsg(asm.ledger0[i].summary)]

\* C14 witness: a ledger of 8 entries for 8 messages, max_turns = 12
C14_Witness ==
  /\ asm.done /\ asm.prof.incremental_history /\ asm.prof.include_history
  /\ Len(asm.ledger0) = 8 /\ Len(LoadHistory(store)) = 8
  /\ asm.prof.max_turns = 12
  /\ Len(asm.context) = 8

----------------------------------------------------------------------------
(* Claims about the file ingestor *)

\* summarization is requested for a reference: by its own flag, and by the
\* global flag only when it carries none
Requested(entry, summarize_text) ==
  IF "summarize" \in DOMAIN entry THEN entry.summarize ELSE summarize_text

\* the remote calls made for text files
TextFileCalls == SelectSeq(ing.calls, LAMBDA c : c.site = "text_file")

\* C10: a .txt reference is summarized remotely exactly when its summarize
\* flag asks for it (the global flag deciding only for a reference without
\* one); with summarize = false a .txt reference gives its verbatim text and
\* a .py reference its text in a fenced code block, with no remote call.
C10_TextDispatch ==
  (ing.done /\ ing.status = "ok") =>
    /\ \A i \in 1..Len(ing.uploaded_files) :
         LET entry == ing.uploaded_files[i]
             text == FileText(entry.path)
         IN  /\ (Ext(entry.path) = ".txt"
                   /\ ~Requested(entry, ing.summarize_text))
                  => ing.messages[i] = UserMsg(text)
             /\ (Ext(entry.path) = ".txt"
                   /\ Requested(entry, ing.summarize_text))
                  => \E k \in 1..Len(ing.calls) :
                       /\ ing.calls[k].site = "text_file"
                       /\ Contents(ing.calls[k].messages)
                            = <<"Summarize text:">> \o text
                       /\ ing.messages[i] = UserMsg(ing.calls[k].reply)
             /\ (Ext(entry.path) = ".py" /\ "summarize" \in DOMAIN entry
                   /\ ~entry.summarize)
                  => ing.messages[i]
                       = UserMsg(<<FENCE, "python">> \o text \o <<FENCE>>)
    /\ Len(TextFileCalls)
         = Cardinality({ i \in 1..Len(ing.uploaded_files) :
                           /\ Ext(ing.uploaded_files[i].path) = ".txt"
                           /\ Requested(ing.uploaded_files[i], ing.summarize_text) })

\* C11: an ingestion that returns gives exactly one message per reference, in
\* the order of the references, whatever their extensions and flags; with a
\* reference whose file is missing the invocation fails, no message returned.
C11_OnePerReference ==
  ing.done =>
    /\ ing.status = "ok" =>
         /\ Len(ing.messages) = Len(ing.uploaded_files)
         /\ \A i \in 1..Len(ing.uploaded_files) :
              /\ FileText(ing.uploaded_files[i].path) # Missing
              /\ IsMessageOf(ing.messages[i], ing.uploaded_files[i])
    /\ (\E i \in 1..Len(ing.uploaded_files) :
          FileText(ing.uploaded_files[i].path) = Missing)
         => ing.status \in {"missing", "failed"}

\* C11 witness: two references of different kinds, ingested in their order
C11_Witness ==
  /\ ing.done /\ ing.status = "ok" /\ Len(ing.uploaded_files) = 2
  /\ Ext(ing.uploaded_files[1].path) = ".py"
  /\ Ext(ing.uploaded_files[2].path) = ".txt"
  /\ ing.messages[1] # ing.messages[2]
  /\ Len(ing.messages) = 2

\* C11 witness of the failure: a missing file after one that was read
C11_MissingFails ==
  /\ ing.done /\ ing.status = "missing" /\ ing.processed = 1
  /\ Len(ing.uploaded_files) = 2

----------------------------------------------------------------------------
(* Claims about the history loader *)

\* the records of the folder: its .json files
Records == SelectSeq(ld.listing, IsJson)

\* a record json.load accepts whose messages all have a role and a content
WellFormed(file) ==
  /\ file.data.valid
  /\ "messages" \in DOMAIN file.data =>
       \A i \in 1..Len(file.data.messages) :
         {"role", "content"} \subseteq DOMAIN file.data.messages[i]

\* the user and assistant messages of a well-formed record, role and
\* content only
Kept(file) ==
  IF "messages" \notin DOMAIN file.data THEN <<>>
  ELSE LET msgs == SelectSeq(file.data.messages,
                             LAMBDA m : m.role \in {"user", "assistant"})
       IN  [i \in 1..Len(msgs) |->
              [role |-> msgs[i].role, content |-> msgs[i].content]]

RECURSIVE Flatten(_, _)
Flatten(files, order) ==
  IF order = <<>> THEN <<>>
  ELSE Kept(files[Head(order)]) \o Flatten(files, Tail(order))

\* the ways to put n files in a row
Orders(n) == { order \in [1..n -> 1..n] : \A i, j \in 1..n :
                                            order[i] = order[j] => i = j }

\* the messages of these files, the files taken oldest first
IsLoadOf(out, files) ==
  \E order \in Orders(Len(files)) :
    /\ \A i \in 1..(Len(files) - 1) :
         files[order[i]].mtime <= files[order[i + 1]].mtime
    /\ out = Flatten(files, order)

\* C15: a record that is not JSON, or has a message without role or content,
\* does not make the load fail: it is skipped, and the messages of all other
\* records are returned in order.
C15_SkipsBadRecords ==
  ld.done =>
    /\ ld.status = "ok"
    /\ IsLoadOf(ld.out, SelectSeq(Records, WellFormed))

\* C16: on a folder of well-formed records the loader returns exactly their
\* user and assistant messages, role and content only, records oldest first
\* by modification time and messages in stored order; on a folder with no
\* records, or none yet, it returns the empty sequence without error.
C16_LoadOrder ==
  (ld.done /\ \A i \in 1..Len(Records) : WellFormed(Records[i]))
    => /\ ld.status = "ok"
       /\ IsLoadOf(ld.out, Records)
       /\ Records = <<>> => ld.out = <<>>

\* C16 witness: the younger record is listed first and loaded last, and a
\* system message and a message of another role were dropped
C16_Witness ==
  /\ ld.done /\ ld.status = "ok" /\ Len(ld.listing) = 2 /\ Len(Records) = 2
  /\ ld.listing[1].mtime > ld.listing[2].mtime
  /\ Len(ld.out) = 4
  /\ ld.out[1] = [role |-> "user", content |-> <<"fix">>]
  /\ ld.out[4] = [role |-> "user", content |-> <<"run">>]

\* a folder that did not exist is created and gives the empty history
C16_NoFolder ==
  ld.done /\ ~ld.exists /\ ld.status = "ok" /\ ld.out = <<>> /\ ld.created

----------------------------------------------------------------------------
(* Claims about the conversation records *)

\* C17: every completed turn adds exactly one new record to the category
\* folder, and no turn changes, replaces or removes a record written before.
C17_AppendOnly ==
  [][ /\ Len(store) <= Len(store')
      /\ SubSeq(store', 1, Len(store)) = store
      /\ (clock' = clock /\ last'.stage = "done")
           => Len(store') = Len(store) + 1 ]_vars

\* the history the loader returns for the category of a profile
LoadedFor(prof) == LoadHistory(FilesAt(disk, ReadFolder(prof)))

\* C18: the record written at the end of a completed turn is part of the
\* history the loader returns on the next invocation for the same category,
\* under every configuration: the folder save_conversation writes is the
\* folder the loader reads.
C18_ReadBack ==
  last.stage = "done" =>
    /\ last.prof.mode # NoMode
    /\ WriteFolder(last.prof) = ReadFolder(last.prof)
    /\ \E i \in 1..Len(LoadedFor(last.prof)) :
         SubSeq(LoadedFor(last.prof), i, i + 1)
           = SelectSeq(last.turn, LAMBDA m : m.role \in {"user", "assistant"})

----------------------------------------------------------------------------
(* Claims about errors *)

\* the last turn of the loop ended with a fatal error: budget exceeded, a
\* missing uploaded file, retries exhausted, or a configuration error
FatalTurn ==
  \/ last.stage \in {"history_exit", "files_missing", "config_error"}
  \/ /\ last.stage \in {"history_failed", "files_failed", "completion_failed"}
     /\ last.failure = "retries_exhausted"

\* C19: in the interactive loop a turn that ends with a fatal error aborts
\* only that turn: the process stays alive and reads the next prompt.
C19_LoopSurvives ==
  (FatalTurn /\ proc.exit # "quit") => proc.alive

\* C20: at every remote call point a transient error is retried up to the
\* profile's max_retries with the configured delay between attempts, and past
\* that bound the error is raised: the call returns when the service gives
\* at most max_retries transient errors before its reply, and is raised
\* after max_retries + 1 calls otherwise; no call point retries forever.
C20_ConfiguredRetries ==
  /\ rt.status = "calling" => rt.attempt <= rt.config.max_retries
  /\ rt.done =>
       IF rt.transient > rt.config.max_retries
         THEN /\ rt.status = "raised"
              /\ rt.calls = rt.config.max_retries + 1
              /\ rt.slept = rt.config.max_retries * rt.config.retry_delay
         ELSE /\ rt.after = "reply" => rt.status = "returned"
              /\ rt.calls = rt.transient + 1
              /\ rt.slept = rt.transient * rt.config.retry_delay

\* every call point stops: it never makes more calls than the bound it
\* works with allows
C20_Finite ==
  rt.calls <= Max(DefaultMaxRetries, FileMaxRetries) + 1

----------------------------------------------------------------------------
(* Claims about interleaved invocations and about the lag of the ledger *)

\* some message of the history was summarized by two remote calls
SummarizedTwice ==
  \E i \in DOMAIN race.summarized : race.summarized[i] >= 2

\* C22: when invocations of the incremental summarizer run one after
\* another, no message is summarized twice and the ledger never gets
\* shorter; interleaved without a lock, both can happen (the witnesses).
C22_SerialSafe ==
  (race.on /\ race.serial) => (~SummarizedTwice /\ ~race.shrunk)

\* C22 witness: interleaved, a slower writer replaced a longer ledger by a
\* shorter one
C22_Witness ==
  /\ race.on /\ ~race.serial /\ race.shrunk
  /\ Len(ledger) = 1

\* C22, the other interleaving: two invocations that both read the empty
\* ledger summarized the first message, and one entry was written twice
C22_Duplicate ==
  /\ race.on /\ ~race.serial /\ ~race.shrunk
  /\ race.summarized[1] = 2 /\ Len(ledger) = 1
  /\ \A p \in Procs : race.procs[p].pc = "idle" /\ race.procs[p].runs = 1

\* the category after k consecutive successful incremental turns from empty,
\* as C23 describes it: 2k history messages and k-1 ledger entries
LagState(h, l) == (h = 0 /\ l = 0) \/ (h >= 2 /\ h = 2 * (l + 1))

\* a step that is one completed turn in incremental mode
IncrementalTurnDone ==
  /\ clock' = clock /\ last'.stage = "done"
  /\ last'.prof.include_history /\ last'.prof.incremental_history

\* what C23 says one more successful turn does to a category in a lag state
LagStep ==
  /\ Len(LoadHistory(store')) = Len(LoadHistory(store)) + 2
  /\ LagState(Len(LoadHistory(store')), Len(ledger'))
  /\ Len(ledger') <= Len(ledger) + 1
  /\ Len(LoadHistory(store')) - Len(ledger')
       > Len(LoadHistory(store)) - Len(ledger)
  /\ Len(ledger') < Len(LoadHistory(store'))
  /\ Len(LoadHistory(store)) >= 4
       => Len(ledger') < Len(LoadHistory(store)) - 1

\* C23: from an empty category, each successful incremental turn adds two
\* messages to the history and at most one entry to the ledger, so after
\* turn k the history has 2k messages and the ledger k-1 entries; the gap
\* grows with every turn, the ledger is never caught up once the history is
\* non-empty, and from turn 3 on the context has no summary of the turn
\* before.
C23_LedgerLag ==
  [][ (IncrementalTurnDone
         /\ LagState(Len(LoadHistory(store)), Len(ledger))) => LagStep ]_vars

\* C23 for the turns whose record is a new file of the folder
C23_LagWhenAppended ==
  [][ (IncrementalTurnDone
         /\ LagState(Len(LoadHistory(store)), Len(ledger))
         /\ Len(store') = Len(store) + 1
         /\ SubSeq(store', 1, Len(store)) = store) => LagStep ]_vars

\* a step that is one incremental turn failing after its history step: at a
\* missing uploaded file, or at the completion call
FailedAfterHistory ==
  /\ clock' = clock
  /\ last'.stage \in {"files_missing", "completion_failed"}
  /\ last'.prof.include_history /\ last'.prof.incremental_history

StepsAligned(summaries) ==
  \A i \in 1..Len(summaries) : summaries[i].step = i

\* C24 (as claimed): an incremental turn that fails after the history step,
\* at a missing uploaded file or at the completion call, leaves the ledger
\* one entry longer and writes no conversation record; the steps stay
\* aligned and the ledger is no longer than the history.
C24_AdvanceSurvives ==
  [][ FailedAfterHistory =>
        /\ disk' = disk
        /\ Len(ledger') = Len(ledger) + 1
        /\ SubSeq(ledger', 1, Len(ledger)) = ledger
        /\ StepsAligned(ledger')
        /\ Len(ledger') <= Len(LoadHistory(store')) ]_vars

\* C24 (amended): the same for a turn that starts with the ledger shorter
\* than the history; a turn that starts with the ledger caught up (the first
\* turn of an empty category among them) leaves the ledger as it was.
C24_AdvanceSurvivesLagging ==
  [][ FailedAfterHistory =>
        /\ disk' = disk
        /\ Len(ledger') = IF Len(ledger) < Len(LoadHistory(store))
                            THEN Len(ledger) + 1 ELSE Len(ledger)
        /\ SubSeq(ledger', 1, Len(ledger)) = ledger
        /\ StepsAligned(ledger')
        /\ Len(ledger') <= Len(LoadHistory(store')) ]_vars

\* C24 witness: the completion call of a turn failed, and the entry the turn
\* added to the ledger is there while the history is the one it found
C24_Witness ==
  /\ last.stage = "completion_failed"
  /\ last.prof.include_history /\ last.prof.incremental_history
  /\ Len(last.ledger0) = 0 /\ Len(ledger) = 1 /\ Len(last.history0) = 2
  /\ LoadHistory(store) = last.history0

\* C24, the other failure: a missing uploaded file
C24_WitnessMissingFile ==
  /\ last.stage = "files_missing"
  /\ last.prof.include_history /\ last.prof.incremental_history
  /\ Len(last.ledger0) = 1 /\ Len(ledger) = 2
  /\ LoadHistory(store) = last.history0

============================================================================
